---- MODULE Spec2Model ----
(***************************************************************************)
(* State-machine model of the browser front end of the realtime car        *)
(* simulator: Game (game.js), ObstacleManager (obstacles.js), Controls     *)
(* (controls.js), the road of the Renderer (renderer.js), the connection   *)
(* handling of MQTTClient, and the configuration they read.                *)
(*                                                                         *)
(* Numbers.  The program computes in IEEE doubles; the model computes in   *)
(* fixed point:                                                            *)
(*   - lengths and positions are integers counting tenths of a pixel       *)
(*     (Px(n) is n pixels), speeds are tenths of a pixel per second;       *)
(*   - times are integer milliseconds (deltaTime of the code is dt/1000);  *)
(*   - sines and cosines are integers counting thousandths, read from a    *)
(*     table over the multiples of 10 degrees;                             *)
(*   - a per-class heightRatio is an integer counting tenths.              *)
(* Every quotient is truncated toward zero (Quot).  The inputs the         *)
(* specifications draw are chosen so that the quotients that decide a      *)
(* comparison come out exact.                                              *)
(***************************************************************************)
EXTENDS Integers, Sequences, FiniteSets, TLC

VARIABLES
    now,               \* performance.now(), ms
    state,             \* Game.state
    gameStartTime,     \* Game.gameStartTime, ms
    gameElapsed,       \* Game.gameElapsed, ms (the code keeps seconds)
    lastTime,          \* Game.lastTime, ms
    keys,              \* Controls.keys
    obstacles,         \* ObstacleManager.obstacles (random + user)
    nextId,            \* ObstacleManager.nextId
    lastSpawnTime,     \* ObstacleManager.lastSpawnTime, ms
    _detectionFrames,  \* ObstacleManager._detectionFrames
    _N,                \* ObstacleManager._N
    obstaclesPassed,   \* ObstacleManager.obstaclesPassed
    rafPending,        \* gameLoop callbacks requestAnimationFrame holds
    collisionLog,      \* number of handleCollision calls (console.log)
    tickLog,           \* the calls of the last gameLoop run, in order
    lastBatch,         \* the aiObjects payload of the last frame pushed
    ingestCount,       \* frames setDetectedFrame pushed since the last clear()
    consoleErrors,     \* errors caught and logged by onMessageArrived
    lastUserData,      \* the payload of the last mouse/obstacle message
    roadOffset,        \* Renderer.roadOffset
    road,              \* the road the last drawRoad call drew, and for
                       \* which steering angle
    ledger,            \* random and user obstacles created, and obstacles
                       \* the ceiling discarded, since the last clear()
    connected,         \* MQTTClient.connected
    reconnectAttempts, \* MQTTClient.reconnectAttempts
    connecting,        \* client.connect(options) calls awaiting their
                       \* onSuccess or onFailure
    retryTimers,       \* the delays of the pending setTimeout(connect), ms
    failedInRow        \* onConnectFailure calls since the last onConnect
                       \* or onConnectionLost

vars == <<now, state, gameStartTime, gameElapsed, lastTime, keys, obstacles,
          nextId, lastSpawnTime, _detectionFrames, _N, obstaclesPassed,
          rafPending, collisionLog, tickLog, lastBatch, ingestCount,
          consoleErrors, lastUserData, roadOffset, road, ledger,
          connected, reconnectAttempts, connecting, retryTimers, failedInRow>>

\* the state of the MQTT client
mqttVars == <<connected, reconnectAttempts, connecting, retryTimers,
              failedInRow>>

----------------------------------------------------------------------------
(* Fixed-point helpers *)

Px(n) == 10 * n

Abs(a) == IF a < 0 THEN -a ELSE a

Min(a, b) == IF a < b THEN a ELSE b

Max(a, b) == IF a > b THEN a ELSE b

\* a / b for b > 0, truncated toward zero
Quot(a, b) == IF a >= 0 THEN a \div b ELSE -((-a) \div b)

\* floor of the square root of n >= 0, by bisection on lo..hi
RECURSIVE SqrtBetween(_, _, _)
SqrtBetween(n, lo, hi) ==
    IF lo >= hi THEN lo
    ELSE LET mid == (lo + hi + 1) \div 2
         IN IF mid * mid <= n THEN SqrtBetween(n, mid, hi)
                              ELSE SqrtBetween(n, lo, mid - 1)

Sqrt(n) == SqrtBetween(n, 0, 46340)

\* 1000 * sin(deg degrees), deg a multiple of 10
SinT(deg) ==
    LET table == <<0, 174, 342, 500, 643, 766, 866, 940, 985, 1000,
                   985, 940, 866, 766, 643, 500, 342, 174, 0,
                   -174, -342, -500, -643, -766, -866, -940, -985, -1000,
                   -985, -940, -866, -766, -643, -500, -342, -174>>
    IN table[((deg % 360) \div 10) + 1]

CosT(deg) == SinT(deg + 90)

----------------------------------------------------------------------------
(* CONFIG (the later of the two configuration files) *)

canvasWidth == 1280

canvasHeight == 900

roadWidth == 650

carWidth == 44

carHeight == 78

carStartX == 640

carStartY == 650

\* CONFIG.referencePoint after "Sync reference point with car defaults"
referencePointX == carStartX

referencePointY == carStartY

maxSpeed == 200

acceleration == 100

deceleration == 150

friction == 50

rotationSpeed == 180

spawnRate == 2000

maxVisible == 20

detectionHistory == 1

sizeConstant == 30

\* CONFIG.cocoClasses: the class names, and heightRatio in tenths
cocoNames == {"person", "bicycle", "car", "motorcycle", "bus", "truck",
              "traffic light", "stop sign"}

cocoHeightRatio(name) ==
    CASE name = "person" -> 12
      [] name = "bicycle" -> 20
      [] name = "car" -> 18
      [] name = "motorcycle" -> 22
      [] name = "bus" -> 25
      [] name = "truck" -> 23
      [] name = "traffic light" -> 25
      [] name = "stop sign" -> 10

cocoColor(name) ==
    CASE name = "person" -> "#FF6B6B"
      [] name = "bicycle" -> "#4ECDC4"
      [] name = "car" -> "#45B7D1"
      [] name = "motorcycle" -> "#FFA07A"
      [] name = "bus" -> "#98D8C8"
      [] name = "truck" -> "#6C5CE7"
      [] name = "traffic light" -> "#FDCB6E"
      [] name = "stop sign" -> "#E17055"

roadLeft == Px(canvasWidth - roadWidth) \div 2

----------------------------------------------------------------------------
(* ObstacleManager: detections *)

\* "no obstacle": the null checkCollision returns
NoObstacle == [type |-> "none"]

\* a mutant: norm is not clamped to 0..1
distanceToYUnclamped(depthValue) ==
    LET minY == Px(50)
        maxY == Px(referencePointY) - (Px(carHeight) \div 2) - Px(10)
    IN minY + Quot(depthValue * (maxY - minY), 255)


\* distanceToY: depth 0 maps to minY, depth 255 to maxY, linear and clamped
distanceToY(depthValue) ==
    LET minY == Px(50)
        maxY == Px(referencePointY) - (Px(carHeight) \div 2) - Px(10)
        clamped == Min(Max(depthValue, 0), 255)
    IN minY + Quot(clamped * (maxY - minY), 255)

\* the heightRatio of the class-table entry or of the default classInfo
classHeightRatio(class) ==
    IF class \in cocoNames THEN cocoHeightRatio(class) ELSE 15

\* An entry of an ai/objects payload is a record; a field the entry does not
\* have is not in its domain.
hasField(aiObj, field) == field \in DOMAIN aiObj

\* a mutant: an unknown class gets the first entry of the class table
classInfoFirstEntry(aiObj) ==
    IF hasField(aiObj, "class") /\ aiObj.class \in cocoNames
    THEN [name |-> aiObj.class, color |-> cocoColor(aiObj.class),
          heightRatio |-> classHeightRatio(aiObj.class)]
    ELSE [name |-> "person", color |-> cocoColor("person"),
          heightRatio |-> classHeightRatio("person")]

\* the class-table entry of aiObj.class, or the default classInfo
\* (size 40 is in the default and is never read)
classInfo(aiObj) ==
    IF hasField(aiObj, "class") /\ aiObj.class \in cocoNames
    THEN [name |-> aiObj.class, color |-> cocoColor(aiObj.class),
          heightRatio |-> classHeightRatio(aiObj.class)]
    ELSE [name |-> IF hasField(aiObj, "class") /\ aiObj.class # ""
                   THEN aiObj.class ELSE "unknown",
          color |-> "#FFFFFF", heightRatio |-> 15]

\* const [bboxX, bboxY, bboxW, bboxH] = aiObj.bbox throws a TypeError when
\* the entry has no bbox
destructuringThrows(aiObj) == ~hasField(aiObj, "bbox")

\* a mutant: the width has no floor of 10
detectedObstacleNoFloor(aiObj) ==
    LET depthValue == IF hasField(aiObj, "distance") THEN aiObj.distance ELSE 0
        obsWidth == Quot(Px(sizeConstant * aiObj.bbox[3]), Max(depthValue, 1))
    IN [id |-> aiObj.id, type |-> "detected", class |-> classInfo(aiObj).name,
        x |-> roadLeft + Quot((2 * aiObj.bbox[1] + aiObj.bbox[3]) * Px(roadWidth),
                              2 * 640),
        y |-> distanceToY(depthValue), width |-> obsWidth,
        height |-> Quot(obsWidth * classInfo(aiObj).heightRatio, 10),
        color |-> classInfo(aiObj).color,
        distance |-> depthValue, aiId |-> aiObj.id]


\* the obstacle setDetectedFrame builds from one entry of the batch
detectedObstacle(aiObj) ==
    LET depthValue == IF hasField(aiObj, "distance") THEN aiObj.distance ELSE 0
        bboxX == aiObj.bbox[1]
        bboxW == aiObj.bbox[3]
        safeDepth == Max(depthValue, 1)
        obsWidth == Max(Px(10), Quot(Px(sizeConstant * bboxW), safeDepth))
        obsHeight == Quot(obsWidth * classInfo(aiObj).heightRatio, 10)
        x == roadLeft + Quot((2 * bboxX + bboxW) * Px(roadWidth), 2 * 640)
        y == distanceToY(depthValue)
    IN [id |-> aiObj.id, type |-> "detected", class |-> classInfo(aiObj).name,
        x |-> x, y |-> y, width |-> obsWidth, height |-> obsHeight,
        color |-> classInfo(aiObj).color,
        distance |-> depthValue, aiId |-> aiObj.id]

\* the loop of setDetectedFrame throws at an entry
setDetectedFrameThrows(aiObjects) ==
    \E i \in 1..Len(aiObjects) : destructuringThrows(aiObjects[i])

\* the frame built by the loop of setDetectedFrame
detectedFrame(aiObjects) ==
    [i \in 1..Len(aiObjects) |-> detectedObstacle(aiObjects[i])]

\* a mutant: on overflow the newest frame is dropped (pop, not shift)
pushFrameDropNewest(frames, N, frame) ==
    LET pushed == Append(frames, frame)
    IN IF Len(pushed) > N THEN SubSeq(pushed, 1, N) ELSE pushed

\* push into the ring buffer, keep the last N
pushFrame(frames, N, frame) ==
    LET pushed == Append(frames, frame)
    IN IF Len(pushed) > N THEN Tail(pushed) ELSE pushed

\* the buffer after setDetectedFrame; an exception leaves the loop before
\* the push
setDetectedFrame(frames, N, aiObjects) ==
    IF setDetectedFrameThrows(aiObjects)
    THEN frames
    ELSE pushFrame(frames, N, detectedFrame(aiObjects))

\* a mutant: a key the map has keeps its first object
mapSetKeepFirst(entries, obj) ==
    IF \E i \in 1..Len(entries) : entries[i].aiId = obj.aiId
    THEN entries
    ELSE Append(entries, obj)

\* map.set(obj.aiId, obj): a new key goes last, a known key keeps its place
mapSet(entries, obj) ==
    IF \E i \in 1..Len(entries) : entries[i].aiId = obj.aiId
    THEN [i \in 1..Len(entries) |->
             IF entries[i].aiId = obj.aiId THEN obj ELSE entries[i]]
    ELSE Append(entries, obj)

RECURSIVE mapSetAll(_, _)
mapSetAll(entries, frame) ==
    IF frame = <<>> THEN entries
    ELSE mapSetAll(mapSet(entries, Head(frame)), Tail(frame))

RECURSIVE mergeFrames(_, _)
mergeFrames(entries, frames) ==
    IF frames = <<>> THEN entries
    ELSE mergeFrames(mapSetAll(entries, Head(frames)), Tail(frames))

\* Array.from(map.values())
mergedDetections(frames) == mergeFrames(<<>>, frames)

\* refPoint inside the obstacle rectangle (both sides doubled: no halves)
containsRef(obs) ==
    /\ 2 * Px(referencePointX) >= 2 * obs.x - obs.width
    /\ 2 * Px(referencePointX) <= 2 * obs.x + obs.width
    /\ 2 * Px(referencePointY) >= 2 * obs.y - obs.height
    /\ 2 * Px(referencePointY) <= 2 * obs.y + obs.height

\* hw / (Math.abs(dx) || 1e-9) when dx is 0: at least 5e9 pixels, more than
\* the distance along the other axis, whose direction component is then 1
farAway == 2000000000

\* hw / (Math.abs(d) || 1e-9), d in thousandths, extent the full width
edgeDist(extent, d) ==
    IF d = 0 THEN farAway ELSE Quot(1000 * extent, 2 * Abs(d))

\* a mutant: the pushed centre without the +2 margin
pushedCentreNoMargin(ox, oy, width, height) ==
    LET dx0 == ox - Px(referencePointX)
        dy0 == oy - Px(referencePointY)
        len == Sqrt(dx0 * dx0 + dy0 * dy0)
        dx == IF len = 0 THEN 0 ELSE Quot(1000 * dx0, len)
        dy == IF len = 0 THEN -1000 ELSE Quot(1000 * dy0, len)
        pushDist == Min(edgeDist(width, dx), edgeDist(height, dy))
    IN <<Px(referencePointX) + Quot(dx * pushDist, 1000),
         Px(referencePointY) + Quot(dy * pushDist, 1000)>>

\* a mutant: the centre nudged by the margin from where it is
pushedCentreNudge(ox, oy, width, height) ==
    LET dx0 == ox - Px(referencePointX)
        dy0 == oy - Px(referencePointY)
        len == Sqrt(dx0 * dx0 + dy0 * dy0)
        dx == IF len = 0 THEN 0 ELSE Quot(1000 * dx0, len)
        dy == IF len = 0 THEN -1000 ELSE Quot(1000 * dy0, len)
    IN <<ox + Quot(dx * Px(2), 1000), oy + Quot(dy * Px(2), 1000)>>

\* the new centre of an obstacle whose rectangle holds the refPoint
pushedCentre(ox, oy, width, height) ==
    LET dx0 == ox - Px(referencePointX)
        dy0 == oy - Px(referencePointY)
        len == Sqrt(dx0 * dx0 + dy0 * dy0)
        \* len < 0.001: in tenths of a pixel only the zero vector
        dx == IF len = 0 THEN 0 ELSE Quot(1000 * dx0, len)
        dy == IF len = 0 THEN -1000 ELSE Quot(1000 * dy0, len)
        pushDist == Min(edgeDist(width, dx), edgeDist(height, dy)) + Px(2)
    IN <<Px(referencePointX) + Quot(dx * pushDist, 1000),
         Px(referencePointY) + Quot(dy * pushDist, 1000)>>

\* one pass of the loop body of _positionDetected over obs
positioned(obs) ==
    IF containsRef(obs)
    THEN LET c == pushedCentre(obs.x, obs.y, obs.width, obs.height)
         IN [obs EXCEPT !.x = c[1], !.y = c[2]]
    ELSE obs

\* the object at frames[f][i] is the one the Map holds for its key: no later
\* object of the buffer has the same aiId
inMap(frames, f, i) ==
    ~\E g \in 1..Len(frames) : \E j \in 1..Len(frames[g]) :
        /\ frames[g][j].aiId = frames[f][i].aiId
        /\ (g > f \/ (g = f /\ j > i))

\* The buffer after _positionDetected.  The merged list holds the buffer's own
\* objects, so the assignments to obs.x, obs.y write into the buffered frames.
positionedFrames(frames) ==
    [f \in 1..Len(frames) |->
        [i \in 1..Len(frames[f]) |->
            IF inMap(frames, f, i) THEN positioned(frames[f][i])
                                   ELSE frames[f][i]]]

\* the list _positionDetected returns
positionDetected(frames) == mergedDetections(positionedFrames(frames))

----------------------------------------------------------------------------
(* ObstacleManager: random and user obstacles *)

\* x: roadLeft + Math.random() * CONFIG.road.width, r = 1000 * Math.random()
randomX(r) == roadLeft + Quot(r * Px(roadWidth), 1000)

addRandomObstacle(obs, id, r) ==
    Append(obs, [id |-> id, type |-> "random", class |-> "cone",
                 x |-> randomX(r), y |-> Px(-50),
                 width |-> Px(30), height |-> Px(30)])

\* A coordinate of the mouse/obstacle payload is <<>> when the field is
\* missing and <<v>> when it is the number v (pixels).
truthy(field) == field # <<>> /\ field[1] # 0

\* a mutant: the new obstacle goes first (unshift, not push)
addUserObstacleFirst(obs, id, data, r) ==
    <<[id |-> id, type |-> "user", class |-> "barrel",
       x |-> IF truthy(data.x) THEN Px(data.x[1]) ELSE randomX(r),
       y |-> IF truthy(data.y) THEN Px(data.y[1]) ELSE Px(-50),
       width |-> Px(35), height |-> Px(35)]>> \o obs

addUserObstacle(obs, id, data, r) ==
    Append(obs, [id |-> id, type |-> "user", class |-> "barrel",
                 x |-> IF truthy(data.x) THEN Px(data.x[1]) ELSE randomX(r),
                 y |-> IF truthy(data.y) THEN Px(data.y[1]) ELSE Px(-50),
                 width |-> Px(35), height |-> Px(35)])

\* a mutant: the steering angle is not negated
driftedWithTurn(o, dt, worldSpeedPx, worldSteeringDeg) ==
    LET vx == Quot(worldSpeedPx * SinT(worldSteeringDeg), 1000)
        vy == Quot(worldSpeedPx * CosT(worldSteeringDeg), 1000)
    IN [o EXCEPT !.x = o.x + Quot(vx * dt, 1000),
                 !.y = o.y + Quot(vy * dt, 1000)]


\* the forEach of update: o.x += vx * deltaTime; o.y += vy * deltaTime
drifted(o, dt, worldSpeedPx, worldSteeringDeg) ==
    LET vx == Quot(worldSpeedPx * SinT(-worldSteeringDeg), 1000)
        vy == Quot(worldSpeedPx * CosT(-worldSteeringDeg), 1000)
    IN [o EXCEPT !.x = o.x + Quot(vx * dt, 1000),
                 !.y = o.y + Quot(vy * dt, 1000)]

\* a mutant: no margin around the canvas
onScreenCanvas(o) ==
    /\ o.y < Px(canvasHeight)
    /\ o.y > 0
    /\ o.x > 0
    /\ o.x < Px(canvasWidth)

\* a mutant: a margin of 50 pixels below the canvas
onScreenHalfMargin(o) ==
    /\ o.y < Px(canvasHeight) + Px(50)
    /\ o.y > Px(-100)
    /\ o.x > Px(-100)
    /\ o.x < Px(canvasWidth) + Px(100)

onScreen(o) ==
    /\ o.y < Px(canvasHeight) + Px(100)
    /\ o.y > Px(-100)
    /\ o.x > Px(-100)
    /\ o.x < Px(canvasWidth) + Px(100)

\* a mutant: no ceiling
limitVisibleNever(kept) == kept

\* this.obstacles.slice(-CONFIG.obstacles.maxVisible)
limitVisible(kept) ==
    IF Len(kept) > maxVisible
    THEN SubSeq(kept, Len(kept) - maxVisible + 1, Len(kept))
    ELSE kept

\* a mutant: obstaclesPassed grows by prevCount - this.obstacles.length
passedAfterPrevCount(passed, moved, kept, final) ==
    passed + (Len(moved) - Len(final))

\* obstaclesPassed after the culling loop: one more per obstacle not kept
passedAfter(passed, moved, kept, final) ==
    passed + (Len(moved) - Len(kept))

\* ObstacleManager.update: the new obstacles and obstaclesPassed
update(obs, passed, dt, worldSpeedPx, worldSteeringDeg) ==
    LET moved == [i \in 1..Len(obs) |->
                     drifted(obs[i], dt, worldSpeedPx, worldSteeringDeg)]
        kept == SelectSeq(moved, onScreen)
        final == limitVisible(kept)
    IN [obstacles |-> final,
        obstaclesPassed |-> passedAfter(passed, moved, kept, final),
        evicted |-> Len(kept) - Len(final)]

\* a mutant: spawnRandom fires when exactly spawnRate ms have passed
spawnDueAtRate(currentTime, lastSpawn) == currentTime - lastSpawn >= spawnRate

\* spawnRandom fires
spawnDue(currentTime, lastSpawn) == currentTime - lastSpawn > spawnRate

\* a mutant: rectangles that touch along an edge collide
rectanglesCollideTouching(x1, y1, w1, h1, x2, y2, w2, h2) ==
    /\ x1 <= x2 + w2
    /\ x1 + w1 >= x2
    /\ y1 <= y2 + h2
    /\ y1 + h1 >= y2

rectanglesCollide(x1, y1, w1, h1, x2, y2, w2, h2) ==
    /\ x1 < x2 + w2
    /\ x1 + w1 > x2
    /\ y1 < y2 + h2
    /\ y1 + h1 > y2

\* the test of checkCollision on one obstacle; every length is doubled so
\* that obs.x - obs.width / 2 needs no half
collides(carX, carY, carW, carH, obs) ==
    rectanglesCollide(2 * carX, 2 * carY, 2 * carW, 2 * carH,
                      2 * obs.x - obs.width, 2 * obs.y - obs.height,
                      2 * obs.width, 2 * obs.height)

\* checkCollision over the list getAll returned: the first obstacle hit
checkCollision(all, carX, carY, carW, carH) ==
    IF \E i \in 1..Len(all) : collides(carX, carY, carW, carH, all[i])
    THEN all[CHOOSE i \in 1..Len(all) :
                /\ collides(carX, carY, carW, carH, all[i])
                /\ \A j \in 1..(i - 1) :
                       ~collides(carX, carY, carW, carH, all[j])]
    ELSE NoObstacle

----------------------------------------------------------------------------
(* Controls *)

KeyNames == {"ArrowUp", "ArrowDown", "ArrowLeft", "ArrowRight"}

keyField(key) ==
    CASE key = "ArrowUp" -> "up"
      [] key = "ArrowDown" -> "down"
      [] key = "ArrowLeft" -> "left"
      [] key = "ArrowRight" -> "right"

noKeys == [up |-> FALSE, down |-> FALSE, left |-> FALSE, right |-> FALSE]

\* calculateCarMotion: carSpeed in tenths of a pixel per second, carAngle in
\* degrees, dt in ms
calculateCarMotion(k, carSpeed, carAngle, dt) ==
    LET speed1 ==
            IF k.up THEN carSpeed + Quot(Px(acceleration) * dt, 1000)
            ELSE IF k.down THEN carSpeed - Quot(Px(deceleration) * dt, 1000)
            ELSE IF carSpeed > 0
                 THEN Max(0, carSpeed - Quot(Px(friction) * dt, 1000))
            ELSE IF carSpeed < 0
                 THEN Min(0, carSpeed + Quot(Px(friction) * dt, 1000))
            ELSE carSpeed
        speed2 == Max(-(Px(maxSpeed) \div 2), Min(Px(maxSpeed), speed1))
        turn == Quot(rotationSpeed * dt, 1000)
        angle1 == IF k.left THEN carAngle - turn ELSE carAngle
        angle2 == IF k.right THEN angle1 + turn ELSE angle1
    IN [carSpeed |-> speed2, carAngle |-> angle2]

----------------------------------------------------------------------------
(* Renderer: the road *)

\* the dashes of the centre line repeat every 60 pixels
dashPeriod == 60

\* drawRoad scrolls by scrollSpeed * 0.016 s, that is 16 ms, per call
frameStep == 16

\* JavaScript's a % b for b > 0: the remainder has the sign of a
jsRem(a, b) == a - b * Quot(a, b)

\* this.roadOffset after the two assignments of drawRoad; scrollSpeed in
\* tenths of a pixel per second
scrolled(offset, scrollSpeed) ==
    jsRem(jsRem(offset - Quot(scrollSpeed * frameStep, 1000), Px(dashPeriod))
              + Px(dashPeriod),
          Px(dashPeriod))

\* d = H / Math.sin(thetaRad).  Math.sin of a multiple of Math.PI is not 0
\* but about 1e-16 in size, positive at the odd multiples and negative at
\* the even ones: d is then beyond every length of the model.
roadRadius(absTheta) ==
    IF SinT(absTheta) > 0 THEN Quot(1000 * Px(canvasHeight), SinT(absTheta))
    ELSE IF SinT(absTheta) < 0
         THEN -Quot(1000 * Px(canvasHeight), -SinT(absTheta))
    ELSE IF absTheta % 360 = 180 THEN farAway ELSE -farAway

\* the circle of the curved branch of drawRoad, d its centre-line radius
curved(steeringDeg, d) ==
    [mode |-> "curved",
     steeringDeg |-> steeringDeg,
     d |-> d,
     cx |-> IF steeringDeg > 0 THEN Px(canvasWidth) \div 2 + d
                               ELSE Px(canvasWidth) \div 2 - d,
     cy |-> Px(referencePointY),
     rInner |-> d - Px(roadWidth) \div 2,
     rOuter |-> d + Px(roadWidth) \div 2,
     ccw |-> ~(steeringDeg > 0)]

\* drawRoad: the branch taken, absTheta < 0.5 for a whole number of degrees
curvature(steeringDeg) ==
    IF 2 * Abs(steeringDeg) < 1
    THEN [mode |-> "straight", steeringDeg |-> steeringDeg]
    ELSE curved(steeringDeg, roadRadius(Abs(steeringDeg)))

\* CanvasRenderingContext2D.arc throws an IndexSizeError for a negative
\* radius
arcThrows(rd) ==
    rd.mode = "curved" /\ (rd.rOuter < 0 \/ rd.rInner < 0 \/ rd.d < 0)

----------------------------------------------------------------------------
(* Game.  The handlers are functions of a record w of every field a game    *)
(* loop reads or writes; an action commits the record its handler returns. *)

newState == [running |-> TRUE, gameOver |-> FALSE, carSpeed |-> 0,
             carAngle |-> 0, carX |-> Px(carStartX), carY |-> Px(carStartY),
             worldSpeed |-> 0, worldSteering |-> 0, obstacles |-> <<>>]

\* nothing created, nothing discarded
noLedger == [created |-> 0, evicted |-> 0]

World == [state |-> state, gameStartTime |-> gameStartTime,
          gameElapsed |-> gameElapsed, lastTime |-> lastTime,
          obstacles |-> obstacles, nextId |-> nextId,
          lastSpawnTime |-> lastSpawnTime, frames |-> _detectionFrames,
          passed |-> obstaclesPassed, raf |-> rafPending,
          collisions |-> collisionLog, log |-> tickLog,
          roadOffset |-> roadOffset, road |-> road, ledger |-> ledger]

\* a mutant: handleCollision logs and does not call gameOver()
handleCollisionLogOnly(w) ==
    [w EXCEPT !.collisions = w.collisions + 1]

\* a mutant: getAll returns the merged detections where they are
getAllUnresolved(obs, frames) ==
    [list |-> obs \o mergedDetections(frames), frames |-> frames]

\* a mutant: getAll drops the detections that are off the screen
getAllOnScreen(obs, frames) ==
    [list |-> obs \o SelectSeq(positionDetected(frames), onScreen),
     frames |-> positionedFrames(frames)]

\* getAll(): the list returned, and the buffer after _positionDetected has
\* written to its objects
getAll(obs, frames) ==
    [list |-> obs \o positionDetected(frames),
     frames |-> positionedFrames(frames)]

\* an array getAll() returned, read after a later call has written to the
\* buffer: its detections are the buffer's own objects
aliased(list, frames) ==
    LET merged == mergedDetections(frames)
    IN [i \in 1..Len(list) |->
           IF list[i].type = "detected"
           THEN merged[CHOOSE j \in 1..Len(merged) :
                           merged[j].aiId = list[i].aiId]
           ELSE list[i]]

\* gameOver(), reached through handleCollision(obstacle)
handleCollision(w) ==
    [w EXCEPT !.state.gameOver = TRUE, !.state.running = FALSE,
              !.collisions = w.collisions + 1,
              !.log = Append(w.log, "gameOver")]

\* Game.update, steps 1 and 2: elapsed time, car speed and heading from the
\* keys, the car moved and clamped to the canvas
moveCar(w, motion, dt, currentTime) ==
    LET hw == Px(carWidth) \div 2
        hh == Px(carHeight) \div 2
        movedX == w.state.carX
                  + Quot(Quot(motion.carSpeed * SinT(motion.carAngle), 1000) * dt, 1000)
        movedY == w.state.carY
                  - Quot(Quot(motion.carSpeed * CosT(motion.carAngle), 1000) * dt, 1000)
    IN [w EXCEPT !.gameElapsed = currentTime - w.gameStartTime,
                 !.state.carSpeed = motion.carSpeed,
                 !.state.carAngle = motion.carAngle,
                 !.state.carX = Max(hw, Min(Px(canvasWidth) - hw, movedX)),
                 !.state.carY = Max(hh, Min(Px(canvasHeight) - hh, movedY))]

\* the manager after obstacleManager.update has returned upd
updated(w, upd) ==
    [w EXCEPT !.obstacles = upd.obstacles,
              !.passed = upd.obstaclesPassed,
              !.ledger.evicted = w.ledger.evicted + upd.evicted,
              !.log = Append(w.log, "update")]

\* Game.update, steps 3 and 4: obstacleManager.update(deltaTime, worldSpeedPx,
\* worldSteering); worldSpeed / 0.36 is in tenths of a pixel per second
updateObstacles(w, dt) ==
    updated(w, update(w.obstacles, w.passed, dt,
                      Quot(Px(w.state.worldSpeed) * 25, 9),
                      w.state.worldSteering))

\* obstacleManager.spawnRandom(currentTime)
spawnRandom(w, currentTime, r) ==
    IF spawnDue(currentTime, w.lastSpawnTime)
    THEN [w EXCEPT !.obstacles = addRandomObstacle(w.obstacles, w.nextId, r),
                   !.nextId = w.nextId + 1,
                   !.ledger.created = w.ledger.created + 1,
                   !.lastSpawnTime = currentTime,
                   !.log = Append(w.log, "spawnRandom")]
    ELSE [w EXCEPT !.log = Append(w.log, "spawnRandom")]

\* this.state.obstacles = all.list, where all is what getAll() returned and
\* did to the buffer: the first _positionDetected of the tick
assigned(w, all) ==
    [w EXCEPT !.state.obstacles = all.list,
              !.frames = all.frames,
              !.log = Append(w.log, "getAll")]

\* this.state.obstacles = this.obstacleManager.getAll()
assignObstacles(w) == assigned(w, getAll(w.obstacles, w.frames))

\* Game.update, step 5, where all is what the getAll() inside checkCollision
\* returned and did to the buffer: the second _positionDetected.
\* state.obstacles is the array of the first call; it holds the buffer's own
\* objects, which the second call has written to.
checked(w, all) ==
    LET hw == Px(carWidth) \div 2
        hh == Px(carHeight) \div 2
        w1 == [w EXCEPT !.frames = all.frames,
                        !.state.obstacles = aliased(w.state.obstacles, all.frames),
                        !.log = Append(w.log, "checkCollision")]
    IN IF checkCollision(all.list, w.state.carX - hw, w.state.carY - hh,
                         Px(carWidth), Px(carHeight)) # NoObstacle
       THEN handleCollision(w1)
       ELSE w1

\* const collision = checkCollision(...); if (collision) handleCollision
collisionStep(w) == checked(w, getAll(w.obstacles, w.frames))

\* Game.update from "Elapsed game time" on (state.gameOver is false)
updateRunning(w, k, dt, currentTime, r) ==
    collisionStep(
        assignObstacles(
            spawnRandom(
                updateObstacles(
                    moveCar(w, calculateCarMotion(k, w.state.carSpeed,
                                                  w.state.carAngle, dt),
                            dt, currentTime),
                    dt),
                currentTime, r)))

\* Game.update
gameUpdate(w, k, dt, currentTime, r) ==
    IF w.state.gameOver THEN w ELSE updateRunning(w, k, dt, currentTime, r)

\* Game.render: renderer.render(this.state)
render(w) ==
    [w EXCEPT !.roadOffset = scrolled(w.roadOffset,
                                      Quot(Px(w.state.worldSpeed) * 25, 9)),
              !.road = curvature(w.state.worldSteering),
              !.log = Append(w.log, "render")]

\* requestAnimationFrame(() => this.gameLoop()), which an exception thrown
\* by render() does not reach
requestFrame(w) ==
    IF arcThrows(w.road) THEN w
    ELSE [w EXCEPT !.raf = w.raf + 1,
                   !.log = Append(w.log, "requestAnimationFrame")]

\* Game.gameLoop, called at currentTime = performance.now()
gameLoop(w, k, currentTime, r) ==
    IF ~w.state.running THEN w
    ELSE requestFrame(
             render(gameUpdate([w EXCEPT !.lastTime = currentTime, !.log = <<>>],
                               k, currentTime - w.lastTime, currentTime, r)))

\* the n callbacks of one animation frame, run one after the other
RECURSIVE runCallbacks(_, _, _, _, _)
runCallbacks(n, w, k, currentTime, r) ==
    IF n = 0 THEN w
    ELSE runCallbacks(n - 1, gameLoop(w, k, currentTime, r), k, currentTime, r)

\* a mutant: clear() leaves the detection buffer
restartKeepBuffer(w, k, currentTime, r) ==
    gameLoop([w EXCEPT !.state = newState,
                       !.obstacles = <<>>,
                       !.passed = 0,
                       !.ledger = noLedger,
                       !.gameStartTime = currentTime,
                       !.lastTime = currentTime],
             k, currentTime, r)

\* Game.restart at currentTime
restart(w, k, currentTime, r) ==
    gameLoop([w EXCEPT !.state = newState,
                       !.obstacles = <<>>,
                       !.frames = <<>>,
                       !.passed = 0,
                       !.ledger = noLedger,
                       !.gameStartTime = currentTime,
                       !.lastTime = currentTime],
             k, currentTime, r)

\* Game.start at currentTime
start(w, k, currentTime, r) ==
    gameLoop([w EXCEPT !.state.running = TRUE,
                       !.state.gameOver = FALSE,
                       !.gameStartTime = currentTime,
                       !.lastTime = currentTime],
             k, currentTime, r)

Commit(w) ==
    /\ state' = w.state
    /\ gameStartTime' = w.gameStartTime
    /\ gameElapsed' = w.gameElapsed
    /\ lastTime' = w.lastTime
    /\ obstacles' = w.obstacles
    /\ nextId' = w.nextId
    /\ lastSpawnTime' = w.lastSpawnTime
    /\ _detectionFrames' = w.frames
    /\ obstaclesPassed' = w.passed
    /\ rafPending' = w.raf
    /\ collisionLog' = w.collisions
    /\ tickLog' = w.log
    /\ roadOffset' = w.roadOffset
    /\ road' = w.road
    /\ ledger' = w.ledger

----------------------------------------------------------------------------
(* MQTTClient: connecting to the broker *)

maxReconnectAttempts == 5

\* the delay of the retry after a failed connect, ms
retryDelay == 5000

\* the delay of the reconnect after a lost connection, ms
reconnectDelay == 2000

\* everything but the state of the MQTT client
gameVars == <<now, state, gameStartTime, gameElapsed, lastTime, keys,
              obstacles, nextId, lastSpawnTime, _detectionFrames, _N,
              obstaclesPassed, rafPending, collisionLog, tickLog, lastBatch,
              ingestCount, consoleErrors, lastUserData, roadOffset, road,
              ledger>>

\* a mutant: one more retry
mayRetryOnceMore(attempts) == attempts <= maxReconnectAttempts

\* if (this.reconnectAttempts < this.maxReconnectAttempts)
mayRetry(attempts) == attempts < maxReconnectAttempts

\* options.onSuccess: onConnect()
OnConnect ==
    /\ connecting > 0
    /\ connecting' = connecting - 1
    /\ connected' = TRUE
    /\ reconnectAttempts' = 0
    /\ failedInRow' = 0
    /\ UNCHANGED <<retryTimers, gameVars>>

\* options.onFailure: onConnectFailure(error)
OnConnectFailure ==
    /\ connecting > 0
    /\ connecting' = connecting - 1
    /\ connected' = FALSE
    /\ failedInRow' = failedInRow + 1
    /\ IF mayRetry(reconnectAttempts)
       THEN /\ reconnectAttempts' = reconnectAttempts + 1
            /\ retryTimers' = Append(retryTimers, retryDelay)
       ELSE UNCHANGED <<reconnectAttempts, retryTimers>>
    /\ UNCHANGED gameVars

\* client.onConnectionLost: onConnectionLost(response)
OnConnectionLost ==
    /\ connected
    /\ connected' = FALSE
    /\ reconnectAttempts' = 0
    /\ failedInRow' = 0
    /\ retryTimers' = Append(retryTimers, reconnectDelay)
    /\ UNCHANGED <<connecting, gameVars>>

\* a setTimeout(() => this.connect(), delay) fires: connect()
RetryTimer ==
    /\ retryTimers # <<>>
    /\ retryTimers' = Tail(retryTimers)
    /\ connecting' = connecting + 1
    /\ UNCHANGED <<connected, reconnectAttempts, failedInRow, gameVars>>

----------------------------------------------------------------------------
(* Bounds *)

\* performance.now() when the page has loaded, ms
PageLoadTime == 1600

\* the clock of a specification stops at MaxTime ms
MaxTime == 3100

\* restart() is clicked while fewer than MaxLoops callbacks are pending
MaxLoops == 2

\* mouse/obstacle messages arrive while nextId is at most MaxUserIds
MaxUserIds == 2

\* ai/objects messages arrive while ingestCount is below MaxIngest
MaxIngest == 3

\* SpecBuffer draws CONFIG.obstacles.detectionHistory from 0..MaxHistory
MaxHistory == 2

\* the clock of SpecSpawn stops at MaxSpawnTime ms
MaxSpawnTime == 6100

\* SpecCrowd: mouse/obstacle messages arrive while the list is shorter than
\* maxVisible + MaxExcess
MaxExcess == 2

----------------------------------------------------------------------------
(* Actions *)

\* the state when new Game() returns, CONFIG.obstacles.detectionHistory = h
InitWith(h) ==
    /\ now = PageLoadTime
    /\ state = [newState EXCEPT !.running = FALSE]
    /\ gameStartTime = 0
    /\ gameElapsed = 0
    /\ lastTime = 0
    /\ keys = noKeys
    /\ obstacles = <<>>
    /\ nextId = 1
    /\ lastSpawnTime = 0
    /\ _detectionFrames = <<>>
    /\ _N = (IF h # 0 THEN h ELSE 1)
    /\ obstaclesPassed = 0
    /\ rafPending = 0
    /\ collisionLog = 0
    /\ tickLog = <<>>
    /\ lastBatch = <<>>
    /\ ingestCount = 0
    /\ consoleErrors = 0
    /\ lastUserData = [x |-> <<>>, y |-> <<>>]
    /\ roadOffset = 0
    /\ road = [mode |-> "none"]
    /\ ledger = noLedger
    /\ connected = FALSE
    /\ reconnectAttempts = 0
    /\ connecting = 0
    /\ retryTimers = <<>>
    /\ failedInRow = 0

started == state.running \/ state.gameOver

\* DOMContentLoaded: game.start(), which calls mqttClient.connect()
Start(r) ==
    /\ ~started
    /\ connecting' = connecting + 1
    /\ Commit(start(World, keys, now, r))
    /\ UNCHANGED <<now, keys, _N, lastBatch, ingestCount, consoleErrors,
                   lastUserData, connected, reconnectAttempts, retryTimers,
                   failedInRow>>

\* the browser runs the pending gameLoop callbacks dt ms after the last frame
AnimationFrame(dt, r) ==
    /\ started
    /\ now' = now + dt
    /\ Commit(runCallbacks(rafPending, [World EXCEPT !.raf = 0], keys,
                           now + dt, r))
    /\ UNCHANGED <<keys, _N, lastBatch, ingestCount, consoleErrors,
                   lastUserData, mqttVars>>

\* click on the restart button
Restart(r) ==
    /\ started
    /\ Commit(restart(World, keys, now, r))
    /\ lastBatch' = <<>>
    /\ ingestCount' = 0
    /\ UNCHANGED <<now, keys, _N, consoleErrors, lastUserData, mqttVars>>

KeyDown(key) ==
    /\ started
    /\ keys' = [keys EXCEPT ![keyField(key)] = TRUE]
    /\ UNCHANGED <<now, state, gameStartTime, gameElapsed, lastTime, obstacles,
                   nextId, lastSpawnTime, _detectionFrames, _N,
                   obstaclesPassed, rafPending, collisionLog, tickLog, lastBatch,
                   ingestCount, consoleErrors,
                   lastUserData,
                   roadOffset, road, ledger, mqttVars>>

KeyUp(key) ==
    /\ started
    /\ keys' = [keys EXCEPT ![keyField(key)] = FALSE]
    /\ UNCHANGED <<now, state, gameStartTime, gameElapsed, lastTime, obstacles,
                   nextId, lastSpawnTime, _detectionFrames, _N,
                   obstaclesPassed, rafPending, collisionLog, tickLog, lastBatch,
                   ingestCount, consoleErrors,
                   lastUserData,
                   roadOffset, road, ledger, mqttVars>>

\* handleMQTTMessage('mouseSpeed', data)
MouseSpeed(speed) ==
    /\ started
    /\ state' = [state EXCEPT !.worldSpeed = speed]
    /\ UNCHANGED <<now, gameStartTime, gameElapsed, lastTime, keys, obstacles,
                   nextId, lastSpawnTime, _detectionFrames, _N,
                   obstaclesPassed, rafPending, collisionLog, tickLog, lastBatch,
                   ingestCount, consoleErrors,
                   lastUserData,
                   roadOffset, road, ledger, mqttVars>>

\* handleMQTTMessage('mouseSteering', data)
MouseSteering(angle) ==
    /\ started
    /\ state' = [state EXCEPT !.worldSteering = angle]
    /\ UNCHANGED <<now, gameStartTime, gameElapsed, lastTime, keys, obstacles,
                   nextId, lastSpawnTime, _detectionFrames, _N,
                   obstaclesPassed, rafPending, collisionLog, tickLog, lastBatch,
                   ingestCount, consoleErrors,
                   lastUserData,
                   roadOffset, road, ledger, mqttVars>>

\* handleMQTTMessage('mouseObstacle', data)
MouseObstacle(data, r) ==
    /\ started
    /\ obstacles' = addUserObstacle(obstacles, nextId, data, r)
    /\ nextId' = nextId + 1
    /\ lastUserData' = data
    /\ ledger' = [ledger EXCEPT !.created = @ + 1]
    /\ UNCHANGED <<now, state, gameStartTime, gameElapsed, lastTime, keys,
                   lastSpawnTime, _detectionFrames, _N, obstaclesPassed,
                   rafPending, collisionLog, tickLog, lastBatch, ingestCount, consoleErrors,
                   roadOffset, road, mqttVars>>

\* handleMQTTMessage('aiObjects', data), data an array
AiObjects(aiObjects) ==
    /\ started
    /\ _detectionFrames' = setDetectedFrame(_detectionFrames, _N, aiObjects)
    /\ IF setDetectedFrameThrows(aiObjects)
       THEN /\ consoleErrors' = consoleErrors + 1
            /\ UNCHANGED <<lastBatch, ingestCount>>
       ELSE /\ lastBatch' = aiObjects
            /\ ingestCount' = ingestCount + 1
            /\ UNCHANGED consoleErrors
    /\ UNCHANGED <<now, state, gameStartTime, gameElapsed, lastTime, keys,
                   obstacles, nextId, lastSpawnTime, _N, obstaclesPassed,
                   rafPending, collisionLog, tickLog, lastUserData,
                   roadOffset, road, ledger, mqttVars>>

----------------------------------------------------------------------------
(* Spec: one browser session.  The player drives with two of the arrow     *)
(* keys, one held at a time; the world speed changes; user obstacles       *)
(* arrive; the restart button is clicked.                                  *)

Init == InitWith(detectionHistory)

\* 1000 * Math.random()
RandomValues == {0, 500}

\* data.speed of mouse/speed, km/h
Speeds == {0, 360}

\* payloads of mouse/obstacle: no coordinates, and the car's own place
UserData == {[x |-> <<>>, y |-> <<>>], [x |-> <<640>>, y |-> <<650>>]}

DriveKeys == {"ArrowUp", "ArrowRight"}

Frame(dt, r) == now + dt <= MaxTime /\ AnimationFrame(dt, r)

Click(r) == rafPending < MaxLoops /\ Restart(r)

Press(key) == keys = noKeys /\ KeyDown(key)

Release(key) == keys[keyField(key)] /\ KeyUp(key)

Place(data, r) == nextId <= MaxUserIds /\ MouseObstacle(data, r)

Next ==
    \/ \E r \in RandomValues : Start(r)
    \/ \E r \in RandomValues : Frame(500, r)
    \/ \E r \in RandomValues : Click(r)
    \/ \E key \in DriveKeys : Press(key)
    \/ \E key \in DriveKeys : Release(key)
    \/ \E speed \in Speeds : MouseSpeed(speed)
    \/ \E data \in UserData, r \in RandomValues : Place(data, r)

Spec == Init /\ [][Next]_vars

----------------------------------------------------------------------------
(* C1 *)

\* a step of restart(): a new session starts at the current time
RestartStep ==
    /\ now' = now
    /\ state'.running
    /\ ~state'.gameOver
    /\ gameStartTime' = now
    /\ state'.carX = Px(carStartX)
    /\ state'.carY = Px(carStartY)

\* an animation frame that leaves the world as it is
FrozenTick ==
    /\ state'.gameOver
    /\ ~state'.running
    /\ obstacles' = obstacles
    /\ _detectionFrames' = _detectionFrames
    /\ obstaclesPassed' = obstaclesPassed
    /\ state'.carX = state.carX
    /\ state'.carY = state.carY
    /\ gameElapsed' = gameElapsed
    /\ collisionLog' = collisionLog

\* C1: a tick whose collision check finds an obstacle puts the session in
\* game-over (gameOver set, running cleared); from then on no animation frame
\* changes an obstacle, the passed counter, the car position or the elapsed
\* time or reports a collision, and the session leaves game-over only by a
\* step of restart().
C1_CollisionIsTerminal ==
    [][/\ collisionLog' > collisionLog =>
              (state'.gameOver /\ ~state'.running)
       /\ (state.gameOver /\ now' # now) => FrozenTick
       /\ (state.gameOver /\ ~state'.gameOver) => RestartStep
       /\ (state.gameOver /\ state'.gameOver) => ~state'.running]_vars

\* C1 witness: the session is in game-over, the callback the colliding tick
\* had scheduled has run and scheduled nothing, while the gas key is held,
\* the world moves and an obstacle beside the colliding one is in the world.
C1_Witness ==
    /\ state.gameOver
    /\ collisionLog > 0
    /\ rafPending = 0
    /\ keys.up
    /\ state.worldSpeed # 0
    /\ Len(obstacles) > 1

----------------------------------------------------------------------------
(* SpecDrift: the world drifts.  Speed and steering messages and user      *)
(* obstacles arrive between frames of 500 or 1000 ms; no key is pressed.   *)

\* data.angle of mouse/steering, degrees
Steerings == {0, 30, -30}

\* payloads of mouse/obstacle: also one 50 pixels below the canvas and one
\* 100 pixels below it
DriftData ==
    UserData \cup {[x |-> <<640>>, y |-> <<canvasHeight + 50>>],
                   [x |-> <<640>>, y |-> <<canvasHeight + 100>>]}

NextDrift ==
    \/ \E r \in RandomValues : Start(r)
    \/ \E dt \in {500, 1000}, r \in RandomValues : Frame(dt, r)
    \/ \E speed \in Speeds : MouseSpeed(speed)
    \/ \E angle \in Steerings : MouseSteering(angle)
    \/ \E data \in DriftData, r \in RandomValues : Place(data, r)

SpecDrift == Init /\ [][NextDrift]_vars

\* an animation frame in which update() runs once
OneUpdate ==
    /\ now' # now
    /\ state.running
    /\ ~state.gameOver
    /\ rafPending = 1

\* the obstacles after the drift of that frame
Moved ==
    [i \in 1..Len(obstacles) |->
        drifted(obstacles[i], now' - lastTime,
                Quot(Px(state.worldSpeed) * 25, 9), state.worldSteering)]

\* the position is on or beyond the margin of 100 pixels around the canvas
PastMargin(o) ==
    \/ o.x <= Px(-100)
    \/ o.x >= Px(canvasWidth + 100)
    \/ o.y <= Px(-100)
    \/ o.y >= Px(canvasHeight + 100)

InsideMargin(o) == ~PastMargin(o)

\* the obstacles update() left, without the one spawnRandom added after it
AfterUpdate ==
    IF nextId' # nextId THEN SubSeq(obstacles', 1, Len(obstacles') - 1)
                        ELSE obstacles'

\* C5: in every advance, the obstacles whose drifted position is past the
\* margin are all removed and the passed counter grows by their number; the
\* obstacles inside the margin are kept, in their order (when they are no
\* more than maxVisible), and add nothing to the counter.
C5_CullCountsEachRemoved ==
    [][OneUpdate =>
        LET removed == {i \in 1..Len(obstacles) : PastMargin(Moved[i])}
            inside == SelectSeq(Moved, InsideMargin)
        IN /\ obstaclesPassed' = obstaclesPassed + Cardinality(removed)
           /\ \A i \in removed :
                  \A j \in 1..Len(obstacles') :
                      obstacles'[j].id # obstacles[i].id
           /\ Len(inside) <= maxVisible => AfterUpdate = inside]_vars

\* C5 witness: a running session in which two obstacles have been culled
\* and another one, which has drifted, was kept.
C5_Witness ==
    /\ state.running
    /\ obstaclesPassed >= 2
    /\ \E i \in 1..Len(obstacles) :
           obstacles[i].y > Px(-50) /\ obstacles[i].type = "random"

----------------------------------------------------------------------------
(* SpecCrowd: user obstacles pile up at the spawn line until the list      *)
(* passes the ceiling.                                                     *)

\* the payload without coordinates
NoCoordinates == [x |-> <<>>, y |-> <<>>]

Crowd(r) ==
    /\ Len(obstacles) < maxVisible + MaxExcess
    /\ nextId <= maxVisible + MaxExcess
    /\ MouseObstacle(NoCoordinates, r)

NextCrowd ==
    \/ Start(500)
    \/ Frame(500, 500)
    \/ \E speed \in Speeds : MouseSpeed(speed)
    \/ Crowd(500)

SpecCrowd == Init /\ [][NextCrowd]_vars

\* C6: when more than maxVisible obstacles remain after the cull, update()
\* leaves exactly the maxVisible most recently inserted of them, in their
\* order, and the passed counter has grown by the culled ones alone.
C6_CeilingEvictsOldest ==
    [][OneUpdate =>
        LET inside == SelectSeq(Moved, InsideMargin)
            n == Len(inside)
        IN n > maxVisible =>
              /\ AfterUpdate = [i \in 1..maxVisible |-> inside[n - maxVisible + i]]
              /\ obstaclesPassed' = obstaclesPassed + (Len(obstacles) - n)]_vars

\* C6 witness: nothing has passed, and the oldest obstacle in the world is
\* not the first one created: the ceiling has discarded obstacles.
C6_Witness ==
    /\ obstaclesPassed = 0
    /\ Len(obstacles) >= maxVisible
    /\ obstacles[1].id > 1

\* the random and user obstacles in the list getAll() returned to the tick
VisibleCount ==
    Cardinality({i \in 1..Len(state.obstacles) :
                    state.obstacles[i].type \in {"random", "user"}})

\* C7: the list getAll() hands to the collision check and the renderer never
\* holds more than maxVisible random and user obstacles.
C7_CeilingOnGetAll == VisibleCount <= maxVisible

----------------------------------------------------------------------------
(* SpecDetect: detection batches arrive in a session; the frames resolve   *)
(* them.  The batches cover far and near depths, narrow and wide boxes,    *)
(* centres left of, at and right of the reference point, and two classes.  *)

detection(id, class, bboxX, bboxW, distance) ==
    [id |-> id, class |-> class, bbox |-> <<bboxX, 100, bboxW, 50>>,
     distance |-> distance]

Singles ==
    {<<detection(1, class, bboxX, bboxW, distance)>> :
        class \in {"car", "bus"}, bboxX \in {12, 65, 600},
        bboxW \in {50, 680}, distance \in {0, 200, 255}}

Pairs ==
    {<<detection(1, "car", 300, 50, 200), detection(2, "bus", 65, 510, 255)>>,
     <<detection(1, "bus", 12, 680, 255), detection(2, "car", 600, 50, 0)>>}

DetectBatches == Singles \cup Pairs

Ingest(aiObjects) == ingestCount < MaxIngest /\ AiObjects(aiObjects)

NextDetect ==
    \/ \E r \in RandomValues : Start(r)
    \/ \E r \in RandomValues : Frame(500, r)
    \/ \E r \in RandomValues : Click(r)
    \/ \E aiObjects \in DetectBatches : Ingest(aiObjects)

SpecDetect == Init /\ [][NextDetect]_vars

\* the reference point lies in the rectangle of o, its edges included
RefInRect(o) ==
    /\ Abs(2 * (Px(referencePointX) - o.x)) <= o.width
    /\ Abs(2 * (Px(referencePointY) - o.y)) <= o.height

\* the detections of the list getAll() returned to the last tick
Resolved == SelectSeq(state.obstacles, LAMBDA o : o.type = "detected")

\* the detections as the last batch was mapped at ingest
Ingested == detectedFrame(lastBatch)

\* C2: the rectangle resolve() returns for a detection never holds the
\* reference point: not in a list a tick got from getAll(), and not for any
\* buffered detection whose rectangle holds the reference point now.
C2_RefOutsideResolved ==
    /\ \A i \in 1..Len(Resolved) : ~RefInRect(Resolved[i])
    /\ \A f \in 1..Len(_detectionFrames) :
           \A i \in 1..Len(_detectionFrames[f]) :
               RefInRect(_detectionFrames[f][i]) =>
                   ~RefInRect(positioned(_detectionFrames[f][i]))

\* C2 witness: a tick has resolved a batch one of whose detections was mapped
\* onto the reference point at ingest.
C2_Witness ==
    /\ ingestCount > 0
    /\ \E i \in 1..Len(Ingested) : \E j \in 1..Len(Resolved) :
           /\ RefInRect(Ingested[i])
           /\ Resolved[j].aiId = Ingested[i].aiId
           /\ Resolved[j].width = Ingested[i].width
           /\ <<Resolved[j].x, Resolved[j].y>> # <<Ingested[i].x, Ingested[i].y>>

\* C8: a step that neither ingests a batch nor resets leaves every obstacle
\* of the buffered frames where it is.
C8_ResolveLeavesBuffer ==
    [][ingestCount' = ingestCount => _detectionFrames' = _detectionFrames]_vars

\* C9: resolving the buffer a second time moves nothing: the buffer and the
\* list returned are those of the first time.
C9_ResolveIdempotent ==
    LET once == positionedFrames(_detectionFrames)
    IN /\ positionedFrames(once) = once
       /\ positionDetected(once) = positionDetected(_detectionFrames)

\* C9 witness: the buffer holds a detection on the reference point that no
\* tick has resolved yet, in a running session.
C9_Witness ==
    /\ state.running
    /\ \E i \in 1..Len(mergedDetections(_detectionFrames)) :
           RefInRect(mergedDetections(_detectionFrames)[i])

\* C10: with a buffer of depth 1, merge() returns one obstacle per entry of
\* the last batch, at the x and y the batch was mapped to at ingest.
C10_MergeReturnsIngestMapping ==
    (_N = 1 /\ ingestCount > 0) =>
        LET merged == mergedDetections(_detectionFrames)
        IN /\ Len(merged) = Len(lastBatch)
           /\ \A i \in 1..Len(merged) :
                  /\ merged[i].x = Ingested[i].x
                  /\ merged[i].y = Ingested[i].y

----------------------------------------------------------------------------
(* SpecBuffer: the ring buffer under every configured depth.               *)

InitBuffer == \E h \in 0..MaxHistory : InitWith(h)

\* batches that share tracking keys, and the empty batch
BufferBatches ==
    {<<>>,
     <<detection(1, "car", 300, 50, 200)>>,
     <<detection(1, "car", 12, 50, 255)>>,
     <<detection(2, "bus", 65, 510, 255), detection(1, "car", 600, 50, 200)>>,
     <<detection(3, "dog", 65, 50, 0), detection(3, "dog", 600, 50, 0)>>}

NextBuffer ==
    \/ \E r \in RandomValues : Start(r)
    \/ \E r \in RandomValues : Frame(500, r)
    \/ \E r \in RandomValues : Click(r)
    \/ \E aiObjects \in BufferBatches : Ingest(aiObjects)

SpecBuffer == InitBuffer /\ [][NextBuffer]_vars

\* the tracking keys present in the buffered frames
BufferedKeys ==
    UNION {{_detectionFrames[f][i].aiId : i \in 1..Len(_detectionFrames[f])} :
              f \in 1..Len(_detectionFrames)}

\* the obstacle with tracking key k of the most recently inserted frame that
\* has one (the last one of that frame)
LatestOf(k) ==
    LET has(f) == \E i \in 1..Len(_detectionFrames[f]) :
                      _detectionFrames[f][i].aiId = k
        f == CHOOSE g \in 1..Len(_detectionFrames) :
                 has(g) /\ \A g2 \in (g + 1)..Len(_detectionFrames) : ~has(g2)
        i == CHOOSE j \in 1..Len(_detectionFrames[f]) :
                 /\ _detectionFrames[f][j].aiId = k
                 /\ \A j2 \in (j + 1)..Len(_detectionFrames[f]) :
                        _detectionFrames[f][j2].aiId # k
    IN _detectionFrames[f][i]

\* C3: merge() returns one obstacle per tracking key of the buffered frames,
\* the one of the most recently inserted frame that has the key.
C3_MergeLatestPerKey ==
    LET merged == mergedDetections(_detectionFrames)
    IN /\ Len(merged) = Cardinality(BufferedKeys)
       /\ \A k \in BufferedKeys :
              \E i \in 1..Len(merged) : merged[i] = LatestOf(k)

\* C3 witness: two buffered frames hold the same tracking key at different
\* positions.
C3_Witness ==
    /\ Len(_detectionFrames) = 2
    /\ \E i \in 1..Len(_detectionFrames[1]) :
           \E j \in 1..Len(_detectionFrames[2]) :
               /\ _detectionFrames[1][i].aiId = _detectionFrames[2][j].aiId
               /\ _detectionFrames[1][i].x # _detectionFrames[2][j].x

\* C4: after k ingests since the last reset the buffer holds min(k, N)
\* frames, and an ingest puts the new frame last, behind the frames that
\* were the most recent ones before it, in their order.
C4_BufferKeepsLastN ==
    /\ [](Len(_detectionFrames) = Min(ingestCount, _N))
    /\ [][ingestCount' = ingestCount + 1 =>
            LET n == Len(_detectionFrames')
                old == Len(_detectionFrames)
            IN /\ _detectionFrames'[n] = detectedFrame(lastBatch')
               /\ \A i \in 1..(n - 1) :
                      _detectionFrames'[i] = _detectionFrames[old - (n - 1) + i]]_vars

\* C4 witness: a buffer of depth 2 that has overflowed.
C4_Witness ==
    /\ _N = 2
    /\ ingestCount > _N
    /\ Len(_detectionFrames) = 2
    /\ _detectionFrames[1] # _detectionFrames[2]

----------------------------------------------------------------------------
(* SpecCollide: obstacles and detections around the car.  At 9 km/h an     *)
(* obstacle drifts 12.5 px in a frame of 500 ms, which brings a barrel     *)
(* placed at y = 581 edge to edge with the car.                            *)

SlowSpeeds == {0, 9}

CollideData == {[x |-> <<640>>, y |-> <<581>>], [x |-> <<640>>, y |-> <<650>>]}

CollideBatches ==
    {<<detection(1, "car", 65, 510, 255)>>,
     <<detection(1, "car", 300, 50, 200)>>,
     <<detection(1, "car", 300, 50, 200), detection(2, "bus", 65, 510, 255)>>}

NextCollide ==
    \/ \E r \in RandomValues : Start(r)
    \/ \E r \in RandomValues : Frame(500, r)
    \/ \E r \in RandomValues : Click(r)
    \/ \E speed \in SlowSpeeds : MouseSpeed(speed)
    \/ \E data \in CollideData, r \in RandomValues : Place(data, r)
    \/ \E aiObjects \in CollideBatches : Ingest(aiObjects)

SpecCollide == Init /\ [][NextCollide]_vars

\* twice the length of the overlap of the car and obstacle o on each axis
\* (negative: a gap; zero: the edges touch)
OverlapX(o) ==
    Min(2 * state.carX + Px(carWidth), 2 * o.x + o.width)
        - Max(2 * state.carX - Px(carWidth), 2 * o.x - o.width)

OverlapY(o) ==
    Min(2 * state.carY + Px(carHeight), 2 * o.y + o.height)
        - Max(2 * state.carY - Px(carHeight), 2 * o.y - o.height)

Overlaps(o) == OverlapX(o) > 0 /\ OverlapY(o) > 0

\* what checkCollision returns for the list and the car of the last tick
Hit ==
    checkCollision(state.obstacles, state.carX - Px(carWidth) \div 2,
                   state.carY - Px(carHeight) \div 2, Px(carWidth),
                   Px(carHeight))

\* C11: checkCollision returns null when no obstacle of the list overlaps
\* the car on both axes (touching edges are no overlap) and the session goes
\* on; otherwise it returns the first overlapping obstacle of the list,
\* procedural/user obstacles before detections, and the session is over.
C11_CheckFindsFirstOverlap ==
    LET all == state.obstacles
    IN IF \A i \in 1..Len(all) : ~Overlaps(all[i])
       THEN Hit = NoObstacle /\ ~state.gameOver
       ELSE \E i \in 1..Len(all) :
                /\ Overlaps(all[i])
                /\ \A j \in 1..(i - 1) : ~Overlaps(all[j])
                /\ Hit = all[i]
                /\ state.gameOver

\* C11 witness: a barrel edge to edge with the car comes first in the list
\* and is passed over; a detection behind it is hit.
C11_Witness ==
    /\ Len(state.obstacles) > 1
    /\ state.obstacles[1].type = "user"
    /\ OverlapX(state.obstacles[1]) > 0
    /\ OverlapY(state.obstacles[1]) = 0
    /\ Hit # NoObstacle
    /\ Hit.type = "detected"
    /\ state.gameOver

----------------------------------------------------------------------------
(* The order of a tick *)

\* a step in which gameLoop passed its running guard: an animation frame of
\* a running session, or the call start() or restart() makes
TickStep ==
    \/ now' # now /\ state.running
    \/ now' = now /\ rafPending' = rafPending + 1

Calls(name) == {i \in 1..Len(tickLog) : tickLog[i] = name}

\* the last tick made one call of each name, the first before the second
CalledBefore(first, second) ==
    \E i \in Calls(first) : \E j \in Calls(second) :
        i < j /\ Calls(first) = {i} /\ Calls(second) = {j}

\* the list of the last tick is the obstacles as update and spawnRandom left
\* them, followed by the detections of the buffer
ListIsFinal ==
    state.obstacles = obstacles \o mergedDetections(_detectionFrames)

ResolvedClear == \A i \in 1..Len(Resolved) : ~RefInRect(Resolved[i])

SomeOverlap == \E i \in 1..Len(state.obstacles) : Overlaps(state.obstacles[i])

\* C12: a tick calls checkCollision once, after update and getAll and before
\* render; the list it checks holds the obstacles after the drift and the
\* cull and the detections after the push, and the session is over exactly
\* if one of them overlaps the car.
C12_CheckOncePerTickOnFinalPositions ==
    [][TickStep =>
          /\ CalledBefore("update", "checkCollision")'
          /\ CalledBefore("getAll", "checkCollision")'
          /\ CalledBefore("checkCollision", "render")'
          /\ ListIsFinal'
          /\ ResolvedClear'
          /\ state'.gameOver <=> SomeOverlap']_vars

\* C12 witness: the last tick moved a barrel down by the drift, pushed a
\* detection off the reference point and found a collision.
C12_Witness ==
    /\ tickLog = <<"update", "spawnRandom", "getAll", "checkCollision",
                   "gameOver", "render", "requestAnimationFrame">>
    /\ \E i \in 1..Len(obstacles) :
           obstacles[i].type = "user" /\ obstacles[i].y = Px(581) + 125
    /\ \E i \in 1..Len(Ingested) : \E j \in 1..Len(Resolved) :
           /\ RefInRect(Ingested[i])
           /\ Resolved[j].aiId = Ingested[i].aiId
           /\ Resolved[j].y # Ingested[i].y

----------------------------------------------------------------------------
(* SpecReset: sessions that end and are reset.  With frames of 300 ms a   *)
(* session can be over before the first spawn is due, so that the tick of  *)
(* restart() is the one that spawns.                                       *)

\* a barrel above the car and one on it
ResetData == {[x |-> <<640>>, y |-> <<581>>], [x |-> <<640>>, y |-> <<650>>]}

ResetBatches == {<<detection(1, "car", 300, 50, 200)>>}

NextReset ==
    \/ Start(500)
    \/ Frame(300, 500)
    \/ Click(500)
    \/ \E speed \in Speeds : MouseSpeed(speed)
    \/ \E data \in ResetData : Place(data, 500)
    \/ \E aiObjects \in ResetBatches : Ingest(aiObjects)

SpecReset == Init /\ [][NextReset]_vars

\* a step of restart(): it calls clear() and then gameLoop()
ClearStep == started /\ now' = now /\ rafPending' = rafPending + 1

ResetThatSpawned ==
    /\ state.running
    /\ gameStartTime = now
    /\ collisionLog > 0
    /\ Len(obstacles) = 1
    /\ lastSpawnTime = now

----------------------------------------------------------------------------
(* SpecImmune: detections in a world that drifts.  One detection is pushed *)
(* far above the canvas, one is small and far; an empty batch takes them   *)
(* away.                                                                   *)

ImmuneBatches ==
    {<<>>,
     <<detection(1, "car", 12, 50, 0)>>,
     <<detection(1, "car", 300, 50, 200)>>,
     <<detection(2, "car", 300, 50, 200), detection(1, "car", 12, 50, 0)>>}

ImmuneSteerings == {0, 30}

NextImmune ==
    \/ Start(500)
    \/ Frame(500, 500)
    \/ Click(500)
    \/ \E speed \in Speeds : MouseSpeed(speed)
    \/ \E angle \in ImmuneSteerings : MouseSteering(angle)
    \/ \E data \in ResetData : Place(data, 500)
    \/ \E aiObjects \in ImmuneBatches : Ingest(aiObjects)

SpecImmune == Init /\ [][NextImmune]_vars

\* the list of the last tick holds one detection per key of the buffer
EveryKeyListed ==
    /\ Len(Resolved) = Cardinality(BufferedKeys)
    /\ \A k \in BufferedKeys : \E i \in 1..Len(Resolved) : Resolved[i].aiId = k

\* C14: a tick moves the buffered detections by the push alone, whatever
\* the world speed and steering, and lists every key of the buffer wherever
\* its detection is; the passed counter grows by the number of
\* procedural/user obstacles drifted past the margin; a key leaves the
\* buffer only in an ingest or a reset.
C14_DetectionsImmuneToAdvance ==
    [][/\ (TickStep /\ ~ClearStep) =>
              /\ _detectionFrames' = positionedFrames(_detectionFrames)
              /\ EveryKeyListed'
              /\ OneUpdate =>
                     obstaclesPassed' = obstaclesPassed
                         + Cardinality({i \in 1..Len(obstacles) :
                                           PastMargin(Moved[i])})
       /\ (\E k \in BufferedKeys : k \notin BufferedKeys') =>
              (ingestCount' = ingestCount + 1 \/ ClearStep)]_vars

\* C14 witness: in a world that drifts down and sideways a barrel has
\* passed, and the list of the last tick holds a detection beyond the margin.
C14_Witness ==
    /\ state.worldSpeed = 360
    /\ state.worldSteering = 30
    /\ obstaclesPassed > 0
    /\ \E i \in 1..Len(Resolved) : PastMargin(Resolved[i])

----------------------------------------------------------------------------
(* Events between ticks *)

\* a step of handleMQTTMessage: no tick, no reset, no key
EventStep == now' = now /\ rafPending' = rafPending /\ keys' = keys

\* what only a tick or a reset writes
TickOwned ==
    <<lastTime, gameElapsed, gameStartTime, obstaclesPassed, lastSpawnTime,
      state.carX, state.carY, state.carSpeed, state.carAngle, state.obstacles,
      state.running, state.gameOver>>

\* C15: an event changes its own part of the world and nothing else: a
\* speed or steering event overwrites that value, a user-obstacle event
\* appends one obstacle behind those that arrived before, a detection batch
\* replaces the frame of a buffer of depth 1; the next tick drifts with the
\* speed and steering it finds, the last that arrived.
C15_EventsBetweenTicks ==
    [][/\ EventStep =>
              /\ TickOwned' = TickOwned
              /\ state'.worldSpeed # state.worldSpeed =>
                     /\ state'.worldSteering = state.worldSteering
                     /\ obstacles' = obstacles
                     /\ _detectionFrames' = _detectionFrames
              /\ state'.worldSteering # state.worldSteering =>
                     /\ state'.worldSpeed = state.worldSpeed
                     /\ obstacles' = obstacles
                     /\ _detectionFrames' = _detectionFrames
              /\ obstacles' # obstacles =>
                     /\ Len(obstacles') = Len(obstacles) + 1
                     /\ SubSeq(obstacles', 1, Len(obstacles)) = obstacles
                     /\ obstacles'[Len(obstacles')].type = "user"
                     /\ state' = state
                     /\ _detectionFrames' = _detectionFrames
              /\ ingestCount' # ingestCount =>
                     /\ _N = 1 => _detectionFrames' = <<detectedFrame(lastBatch')>>
                     /\ state' = state
                     /\ obstacles' = obstacles
       /\ (OneUpdate /\ Len(obstacles) <= maxVisible) =>
              AfterUpdate = SelectSeq(Moved, InsideMargin)]_vars

\* C15 witness: between the first tick and the second a steering and a
\* speed event, two user obstacles and MaxIngest batches arrived; the second
\* tick drifted both obstacles off the screen and found one frame.
C15_Witness ==
    /\ now = PageLoadTime + 500
    /\ lastTime = now
    /\ state.worldSpeed = 360
    /\ state.worldSteering = 30
    /\ obstaclesPassed = 2
    /\ ingestCount >= 3
    /\ Len(_detectionFrames) = 1

----------------------------------------------------------------------------
(* SpecSpawn: a long session with frames of 500 and 1500 ms, so that ticks *)
(* fall exactly spawnRate ms after a spawn, and resets in between.         *)

LongFrame(dt, r) == now + dt <= MaxSpawnTime /\ AnimationFrame(dt, r)

NextSpawn ==
    \/ \E r \in RandomValues : Start(r)
    \/ \E dt \in {500, 1500}, r \in RandomValues : LongFrame(dt, r)
    \/ \E r \in RandomValues : Click(r)

SpecSpawn == Init /\ [][NextSpawn]_vars

\* the ids of the procedural obstacles of a list
RandomIds(list) ==
    {list[i].id : i \in {j \in 1..Len(list) : list[j].type = "random"}}

\* C16: a step creates at most one procedural obstacle, and creates one only
\* in a tick that runs more than spawnRate ms after the previous spawn; that
\* tick becomes the time of the last spawn.
C16_SpawnRateLimited ==
    [][LET created == RandomIds(obstacles') \ RandomIds(obstacles)
       IN /\ Cardinality(created) <= 1
          /\ created # {} =>
                 /\ TickStep
                 /\ now' - lastSpawnTime > spawnRate
                 /\ lastSpawnTime' = now'
          /\ lastSpawnTime' # lastSpawnTime => created # {}]_vars

\* C16 witness: a second cone has been spawned, by a tick that followed
\* another tick.
C16_Witness ==
    /\ Cardinality(RandomIds(obstacles)) = 2
    /\ lastSpawnTime = now
    /\ lastSpawnTime > 2 * spawnRate

----------------------------------------------------------------------------
(* SpecMalformed: batches of two entries, a well-formed car and an entry   *)
(* with an unknown, empty or missing class, a missing bbox, or a zero,     *)
(* negative or missing depth.                                              *)

goodEntry == detection(1, "car", 300, 50, 200)

MalformedEntries ==
    {[id |-> 2, class |-> "dog", bbox |-> <<65, 100, 50, 50>>, distance |-> 200],
     [id |-> 2, bbox |-> <<65, 100, 50, 50>>, distance |-> 200],
     [id |-> 2, class |-> "", bbox |-> <<65, 100, 50, 50>>, distance |-> 200],
     [id |-> 2, class |-> "car", distance |-> 200],
     [id |-> 2, class |-> "car", bbox |-> <<65, 100, 50, 50>>, distance |-> 0],
     [id |-> 2, class |-> "car", bbox |-> <<65, 100, 50, 50>>, distance |-> -5],
     [id |-> 2, class |-> "car", bbox |-> <<65, 100, 50, 50>>]}

MalformedBatches ==
    {<<goodEntry, e>> : e \in MalformedEntries}
        \cup {<<e, goodEntry>> : e \in MalformedEntries}

IngestAny(aiObjects) ==
    /\ ingestCount < MaxIngest
    /\ consoleErrors < MaxIngest
    /\ AiObjects(aiObjects)

NextMalformed ==
    \/ \E r \in RandomValues : Start(r)
    \/ \E r \in RandomValues : Frame(500, r)
    \/ \E r \in RandomValues : Click(r)
    \/ \E aiObjects \in MalformedBatches : IngestAny(aiObjects)

SpecMalformed == Init /\ [][NextMalformed]_vars

\* C17: no batch with a malformed entry makes setDetectedFrame throw: no
\* error reaches the catch of onMessageArrived.
C17_MalformedNeverAborts == consoleErrors = 0

\* C18 as stated: a buffered detection whose class is not in the class table
\* carries the default label, the default colour and the default height
\* ratio.
C18_UnknownClassDefaults ==
    \A f \in 1..Len(_detectionFrames) :
        \A i \in 1..Len(_detectionFrames[f]) :
            LET d == _detectionFrames[f][i]
            IN d.class \notin cocoNames =>
                   /\ d.class = "unknown"
                   /\ d.color = "#FFFFFF"
                   /\ d.height = Quot(d.width * 15, 10)

----------------------------------------------------------------------------
(* SpecUser: mouse/obstacle payloads with coordinates that are missing,    *)
(* zero, and other numbers; the world stands still.                        *)

ZeroData == {[x |-> <<0>>, y |-> <<300>>], [x |-> <<640>>, y |-> <<0>>],
             [x |-> <<>>, y |-> <<300>>], [x |-> <<100>>, y |-> <<>>]}

NextUser ==
    \/ \E r \in RandomValues : Start(r)
    \/ \E r \in RandomValues : Frame(500, r)
    \/ \E r \in RandomValues : Click(r)
    \/ \E data \in UserData \cup ZeroData, r \in RandomValues : Place(data, r)

SpecUser == Init /\ [][NextUser]_vars

\* C19: a mouse/obstacle message appends one obstacle; a coordinate the
\* payload supplies, 0 included, is the coordinate of the obstacle; for a
\* missing x the obstacle is in the road band, for a missing y it is above
\* the canvas.
C19_UserObstacleAtSuppliedPlace ==
    [][(EventStep /\ obstacles' # obstacles) =>
          LET new == obstacles'[Len(obstacles')]
              data == lastUserData'
          IN /\ Len(obstacles') = Len(obstacles) + 1
             /\ SubSeq(obstacles', 1, Len(obstacles)) = obstacles
             /\ data.x # <<>> => new.x = Px(data.x[1])
             /\ data.y # <<>> => new.y = Px(data.y[1])
             /\ data.x = <<>> =>
                    (new.x >= roadLeft /\ new.x <= roadLeft + Px(roadWidth))
             /\ data.y = <<>> => new.y < 0]_vars

----------------------------------------------------------------------------
(* The end-to-end scenario of update(), in SpecDrift *)

\* update(deltaTime = 1, speed 0, steering 0) runs on a world that holds one
\* obstacle, 'below' pixels under the canvas, and has counted nothing
Scenario(below) ==
    /\ OneUpdate
    /\ now' - lastTime = 1000
    /\ state.worldSpeed = 0
    /\ state.worldSteering = 0
    /\ obstaclesPassed = 0
    /\ Len(obstacles) = 1
    /\ obstacles[1].y = Px(canvasHeight + below)

\* C20 as stated: the scenario with the obstacle at canvasHeight + 50
\* removes it and moves the passed count from 0 to 1.
C20_ScenarioRemoves ==
    [][Scenario(50) => (AfterUpdate = <<>> /\ obstaclesPassed' = 1)]_vars

\* C20 amended: the scenario with the obstacle at canvasHeight + 50, inside
\* the margin of 100, keeps it where it is and leaves the passed count at 0;
\* with the obstacle at canvasHeight + 100 it removes it and moves the
\* count from 0 to 1.
C20_ScenarioKeepsInsideMargin ==
    [][/\ Scenario(50) => (AfterUpdate = obstacles /\ obstaclesPassed' = 0)
       /\ Scenario(100) => (AfterUpdate = <<>> /\ obstaclesPassed' = 1)]_vars

\* C20 witness: one second after the start, in a world that stands still,
\* the tick has listed the obstacle placed 50 pixels below the canvas and
\* counted nothing.
C20_Witness ==
    /\ gameElapsed = 1000
    /\ state.worldSpeed = 0
    /\ state.worldSteering = 0
    /\ obstaclesPassed = 0
    /\ nextId = 3
    /\ Len(state.obstacles) = 2
    /\ state.obstacles[1].type = "user"
    /\ state.obstacles[1].y = Px(canvasHeight + 50)
    /\ state.obstacles[2].type = "random"


\* an entry whose class is missing or not in the class table
UnknownClass(e) == ~hasField(e, "class") \/ e.class \notin cocoNames

\* C18 amended: the frame in the buffer has one obstacle per entry of the
\* batch; the obstacle of an entry with an unknown class carries the
\* entry's own class name as its label ("unknown" if the entry has none or
\* an empty one),
\* the default colour and the default height ratio.
C18_UnknownClassKeepsName ==
    (_N = 1 /\ ingestCount > 0) =>
        /\ Len(_detectionFrames[1]) = Len(lastBatch)
        /\ \A i \in 1..Len(lastBatch) :
               LET e == lastBatch[i]
                   d == _detectionFrames[1][i]
               IN UnknownClass(e) =>
                      /\ d.class = (IF hasField(e, "class") /\ e.class # ""
                                    THEN e.class ELSE "unknown")
                      /\ d.color = "#FFFFFF"
                      /\ d.height = Quot(d.width * 15, 10)
                      /\ d.aiId = e.id

\* C18 witness: the buffer holds the obstacle of a "dog" beside a car.
C18_Witness ==
    /\ ingestCount > 0
    /\ \E i \in 1..Len(_detectionFrames[1]) :
           _detectionFrames[1][i].class = "dog"
    /\ \E i \in 1..Len(_detectionFrames[1]) :
           _detectionFrames[1][i].class = "car"

----------------------------------------------------------------------------
(* SpecDepth: ai/objects batches of two entries of the same class and      *)
(* bounding box, the second one depth unit deeper than the first, over     *)
(* every depth from DepthSlack below 0 to DepthSlack above 255; single     *)
(* entries of several classes and widths; and one entry without a          *)
(* distance.  No tick runs: the buffer holds the frames as                 *)
(* setDetectedFrame built them.                                            *)

\* depths from -DepthSlack to 255 + DepthSlack are ingested
DepthSlack == 3

DepthValues == (0 - DepthSlack)..(255 + DepthSlack)

noDistance == [id |-> 1, class |-> "car", bbox |-> <<300, 100, 50, 50>>]

\* entries of several classes and bounding-box widths at a few depths
SizeBatches ==
    {<<detection(1, class, 300, bboxW, d)>> :
        class \in {"car", "bus", "dog"}, bboxW \in {0, 50, 680},
        d \in {-5, 0, 1, 200, 255}}

DepthBatches ==
    {<<detection(1, "car", 300, 50, d), detection(2, "car", 300, 50, d + 1)>> :
        d \in DepthValues}
    \cup SizeBatches \cup {<<noDistance>>}

NextDepth ==
    \/ Start(500)
    \/ \E aiObjects \in DepthBatches : Ingest(aiObjects)

SpecDepth == Init /\ [][NextDepth]_vars

\* aiObj.distance || 0
depthOf(e) == IF hasField(e, "distance") /\ e.distance # 0 THEN e.distance ELSE 0

\* the top of the band detections are drawn in, and its bottom just above
\* the car
bandMinY == Px(50)

bandMaxY == Px(referencePointY) - Px(carHeight) \div 2 - Px(10)

\* C21: the y of every ingested detection lies in [minY, maxY]; it is minY
\* for a depth of 0 or less and maxY for a depth of 255 or more; and of two
\* entries of a batch the deeper one is not placed higher.
C21_DepthToYMonotoneClamped ==
    ingestCount > 0 =>
        \A i \in 1..Len(lastBatch) :
            LET d == depthOf(lastBatch[i])
                o == _detectionFrames[1][i]
            IN /\ o.y >= bandMinY
               /\ o.y <= bandMaxY
               /\ d <= 0 => o.y = bandMinY
               /\ d >= 255 => o.y = bandMaxY
               /\ \A j \in 1..Len(lastBatch) :
                      depthOf(lastBatch[j]) >= d => _detectionFrames[1][j].y >= o.y

\* C21 witness: a batch with depths 255 and 256 is in the buffer, both
\* entries at maxY = 601.
C21_Witness ==
    /\ ingestCount > 0
    /\ Len(lastBatch) = 2
    /\ lastBatch[1].distance = 255
    /\ lastBatch[2].distance = 256
    /\ _detectionFrames[1][1].y = Px(601)
    /\ _detectionFrames[1][2].y = Px(601)

\* the height ratio of the class table, in tenths; 1.5 for any other class
tableRatio(class) ==
    CASE class = "person" -> 12
      [] class = "bicycle" -> 20
      [] class = "car" -> 18
      [] class = "motorcycle" -> 22
      [] class = "bus" -> 25
      [] class = "truck" -> 23
      [] class = "traffic light" -> 25
      [] class = "stop sign" -> 10
      [] OTHER -> 15

\* C22: the width of every ingested detection is the larger of 10 and
\* sizeConstant * bboxWidth / max(depth, 1) (to the tenth of a pixel: the
\* quotient q is the one with q * depth <= sizeConstant * bboxWidth
\* < (q + 1) * depth), its height is the width times the height ratio of
\* its class, both are positive; bbox width 50 at depth 200 gives width 10.
C22_SizeFromDepth ==
    ingestCount > 0 =>
        \A i \in 1..Len(lastBatch) :
            LET e == lastBatch[i]
                o == _detectionFrames[1][i]
                safeDepth == IF depthOf(e) > 1 THEN depthOf(e) ELSE 1
                raw == Px(sizeConstant * e.bbox[3])
            IN /\ o.width >= Px(10)
               /\ (o.width + 1) * safeDepth > raw
               /\ o.width > Px(10) => o.width * safeDepth <= raw
               /\ 10 * o.height <= o.width * tableRatio(e.class)
               /\ 10 * (o.height + 1) > o.width * tableRatio(e.class)
               /\ o.height > 0
               /\ (e.bbox[3] = 50 /\ depthOf(e) = 200) => o.width = Px(10)

\* C22 witness: after an earlier batch, the buffer holds a bus of bbox
\* width 680 ingested at depth 0: width 30 * 680 / 1 = 20400, height 51000.
C22_Witness ==
    /\ ingestCount > 1
    /\ Len(lastBatch) = 1
    /\ lastBatch[1].class = "bus"
    /\ lastBatch[1].distance = 0
    /\ _detectionFrames[1][1].width = Px(20400)
    /\ _detectionFrames[1][1].height = Px(51000)

----------------------------------------------------------------------------
(* C23, checked in SpecDrift: steering 0, 30 and -30 degrees, world speed  *)
(* 0 and 360 km/h (1000 px/s), frames of 500 and 1000 ms.                  *)

\* obstacle i of the list before the update is obstacle j of the list after
SameObstacle(i, j) == obstacles'[j].id = obstacles[i].id

----------------------------------------------------------------------------
(* SpecRoad: steering and speed messages between animation frames 16 and   *)
(* 50 ms apart, for MaxRoadTime ms after the page has loaded.              *)

\* the clock of SpecRoad stops MaxRoadTime ms after the page has loaded
MaxRoadTime == 100

\* data.angle of mouse/steering, degrees
RoadSteerings == {0, 10, -10, 90, -90, 170, 210, -210}

RoadFrame(dt) ==
    now + dt <= PageLoadTime + MaxRoadTime /\ AnimationFrame(dt, 500)

NextRoad ==
    \/ Start(500)
    \/ \E dt \in {16, 50} : RoadFrame(dt)
    \/ Click(500)
    \/ \E speed \in Speeds : MouseSpeed(speed)
    \/ \E angle \in RoadSteerings : MouseSteering(angle)

SpecRoad == Init /\ [][NextRoad]_vars

\* the x of the road's centre line
roadCentreX == Px(canvasWidth) \div 2

\* C24: the road drawn is straight exactly when the magnitude of the
\* steering angle is below the threshold of half a degree; a curved road has
\* its circle centre at the y of the reference point, to the right of the
\* centre line for a positive steering angle and to the left for a negative
\* one.
C24_CurvatureMode ==
    road.mode # "none" =>
        /\ road.mode = "straight" <=> 2 * Abs(road.steeringDeg) < 1
        /\ road.mode = "curved" <=> 2 * Abs(road.steeringDeg) >= 1
        /\ road.mode = "curved" =>
               /\ road.cy = Px(referencePointY)
               /\ road.steeringDeg > 0 => road.cx > roadCentreX
               /\ road.steeringDeg < 0 => road.cx < roadCentreX

\* C25: a curved road has a positive radius d, a positive inner radius and
\* a positive outer radius.
C25_RadiiPositive ==
    road.mode = "curved" => (road.d > 0 /\ road.rInner > 0 /\ road.rOuter > 0)

\* a and b differ by a whole number of dash periods
SameDash(a, b) == (a - b) % Px(dashPeriod) = 0

\* C26: a tick moves the offset of the dashed centre line by the world speed
\* times the deltaTime of the tick (in either direction), modulo the dash
\* period, and leaves it in [0, dash period).
C26_ScrollBySpeedTimesDelta ==
    [][OneUpdate =>
        LET travelled == Quot(Quot(Px(state.worldSpeed) * 25, 9) * (now' - lastTime),
                              1000)
        IN /\ roadOffset' >= 0
           /\ roadOffset' < Px(dashPeriod)
           /\ \/ SameDash(roadOffset', roadOffset - travelled)
              \/ SameDash(roadOffset', roadOffset + travelled)]_vars

----------------------------------------------------------------------------
(* C27 is checked in SpecReset, where collisions, animation frames and     *)
(* clicks on the restart button interleave.                                *)

\* C27: at most one gameLoop callback is pending at any time.
C27_OneLoopChain == rafPending <= 1

----------------------------------------------------------------------------
(* SpecLedger: user obstacles pile up past the ceiling, the world scrolls  *)
(* between animation frames 1.5 s apart, and the restart button is         *)
(* clicked before many obstacles exist.                                    *)

NextLedger ==
    \/ Start(500)
    \/ LongFrame(1500, 500)
    \/ \E speed \in Speeds : MouseSpeed(speed)
    \/ Crowd(500)
    \/ nextId <= MaxUserIds /\ Click(500)

SpecLedger == Init /\ [][NextLedger]_vars

\* C28: between resets the passed counter never decreases, and in every
\* state the random and user obstacles created since the last reset are the
\* ones in the world, the ones counted as passed and the ones the ceiling
\* discarded.
C28_ObstaclesAccounted ==
    [][/\ ledger.created = Len(obstacles) + obstaclesPassed + ledger.evicted
       /\ ledger'.created = Len(obstacles') + obstaclesPassed' + ledger'.evicted
       /\ ~ClearStep => obstaclesPassed' >= obstaclesPassed]_vars

\* C28 witness: since the last reset, obstacles have been created, some have
\* passed, some have been discarded by the ceiling, and some are in the world.
C28_Witness ==
    /\ nextId > ledger.created + 1
    /\ obstaclesPassed > 0
    /\ ledger.evicted > 0
    /\ Len(obstacles) > 0

----------------------------------------------------------------------------
(* SpecEvict: a session at a constant world speed and steering, set before *)
(* the first animation frame; a frame every 2.1 s, so that every tick      *)
(* spawns an obstacle, for MaxEvictTime ms.                                *)

\* the clock of SpecEvict stops MaxEvictTime ms after the page has loaded
MaxEvictTime == 48300

\* data.angle of mouse/steering, degrees
EvictSteerings == {0, 90, -30}

\* data.speed of mouse/speed, km/h
EvictSpeeds == {0, 36, 360}

EvictFrame(dt) ==
    now + dt <= PageLoadTime + MaxEvictTime /\ AnimationFrame(dt, 0)

NextEvict ==
    \/ Start(0)
    \/ EvictFrame(2100)
    \/ \E speed \in EvictSpeeds : now = PageLoadTime /\ MouseSpeed(speed)
    \/ \E angle \in EvictSteerings : now = PageLoadTime /\ MouseSteering(angle)
    \/ \E data \in UserData : Place(data, 0)

SpecEvict == Init /\ [][NextEvict]_vars

\* C29: in a running session every tick that comes more than spawnRate after
\* the last spawn creates a newer obstacle, and no obstacle is in the world
\* after a tick once maxVisible + 1 newer ones have been created: as ticks
\* keep advancing time every obstacle leaves, at any constant speed
\* (0 included), and the list after a tick holds at most maxVisible + 1.
C29_EveryObstacleLeaves ==
    [][OneUpdate =>
          /\ spawnDue(now', lastSpawnTime) => nextId' = nextId + 1
          /\ \A i \in 1..Len(obstacles') :
                 obstacles'[i].id >= nextId' - (maxVisible + 1)
          /\ Len(obstacles') <= maxVisible + 1]_vars

\* C29 witness: the world stands still, nothing has passed, and the first
\* obstacles created have left the world through the ceiling.
C29_Witness ==
    /\ state.running
    /\ state.worldSpeed = 0
    /\ obstaclesPassed = 0
    /\ ledger.evicted >= 2
    /\ Len(obstacles) = maxVisible + 1
    /\ obstacles[1].id > 2

----------------------------------------------------------------------------
(* SpecMqtt: the client connects, fails, retries, loses the connection,    *)
(* while the game loop runs and speed messages arrive over the connection. *)

NextMqtt ==
    \/ Start(500)
    \/ Frame(500, 500)
    \/ OnConnect
    \/ OnConnectFailure
    \/ OnConnectionLost
    \/ RetryTimer
    \/ \E speed \in Speeds : connected /\ MouseSpeed(speed)

SpecMqtt == Init /\ [][NextMqtt]_vars

\* connects under way: waiting for a timer, for the broker, or established
chains(timers, inFlight, isConnected) ==
    Len(timers) + inFlight + (IF isConnected THEN 1 ELSE 0)

\* C30: reconnectAttempts never exceeds maxReconnectAttempts; a successful
\* connect and a connection loss leave it at 0; a failure schedules at most
\* one retry, and never is more than one connect scheduled, under way or
\* established; a connect fails at most maxReconnectAttempts + 1 times in a
\* row (the first connect and its retries), and after the last of these
\* failures no connect is scheduled or under way, so none ever follows.
C30_BoundedRetries ==
    [][/\ reconnectAttempts' <= maxReconnectAttempts
       /\ failedInRow' <= maxReconnectAttempts + 1
       /\ (connected' /\ ~connected) => reconnectAttempts' = 0
       /\ (connected /\ ~connected') => reconnectAttempts' = 0
       /\ failedInRow' > failedInRow =>
              Len(retryTimers') <= Len(retryTimers) + 1
       /\ chains(retryTimers', connecting', connected') <= 1
       /\ failedInRow' = maxReconnectAttempts + 1 =>
              chains(retryTimers', connecting', connected') = 0
       /\ (failedInRow = maxReconnectAttempts + 1) =>
              UNCHANGED mqttVars]_vars

\* C30 witness: the first connect and its five retries have failed, and the
\* client has given up.
C30_Witness ==
    /\ failedInRow = maxReconnectAttempts + 1
    /\ reconnectAttempts = maxReconnectAttempts
    /\ retryTimers = <<>>
    /\ connecting = 0
    /\ ~connected

====
